---- MODULE Spec2Model ----
(***************************************************************************)
(* A model of src/src/vtol.py: the VTOL vehicle controller.                *)
(*                                                                         *)
(* The radio layer calls VTOL.coms_callback with a decoded command; the    *)
(* callback validates the command type and runs one blocking maneuver      *)
(* (takeoff, land, go_to, set_altitude) against the autopilot.  A maneuver *)
(* is a sequence of autopilot requests and poll loops; every poll of the   *)
(* autopilot is one step of the model, and the value polled is an input    *)
(* chosen by the autopilot.  The class holds no lock, queue or busy flag,  *)
(* and the thread that runs the callback is chosen by the radio layer, so  *)
(* the model has one position (pc) per callback context and lets a         *)
(* callback start on any context that is not inside a callback.            *)
(***************************************************************************)
EXTENDS Integers, Sequences, FiniteSets, TLC

VARIABLES
    status,     \* VTOL.status
    mode,       \* Vehicle.mode, the mode last requested from the autopilot
    pc,         \* per callback context: the statement it is blocked at
    cmd,        \* per callback context: the command handed to coms_callback
    trace,      \* per callback context: autopilot gates passed and requests made
    req,        \* per callback context: argument of the navigation request made
    polls,      \* per callback context: readings taken in the current poll loop
    reading,    \* per callback context: the last reading of the current poll loop
    result,     \* per callback context: how the last coms_callback call ended
    rxReady,    \* per callback context: a takeoff command came in with status "ready"
    slept,      \* per callback context: seconds of settle delay slept by land
    csArg,      \* argument of the last change_status call
    csRaised,   \* whether the last change_status call raised
    here,       \* per callback context: vehicle location read by set_altitude
    MISSION_COMPLETED,  \* VTOL.MISSION_COMPLETED
    utpc,       \* update_thread: the statement it is at
    sample,     \* update_thread: location and battery level read this cycle
    msg,        \* update_thread: update_message of this cycle
    ackId,      \* update_thread: id handed to send_till_ack
    nextId,     \* Coms: the last message id given out by new_msg_id
    sent,       \* ids of the updates handed to send_till_ack, in order
    attempts,   \* send_till_ack: transmissions made of the current message
    drops,      \* radio channel: acks it drops before delivering one
    sendOk,     \* send_till_ack: result of the last call
    cspc,       \* a second flow calling change_status: the statement it is at
    csNew,      \* that flow's new_status
    attPc,      \* set_attitude: the statement it is at
    attArgs,    \* set_attitude: its arguments
    attMsgs,    \* attitude targets sent by the current set_attitude call
    attClock    \* set_attitude: time.time() - start at the last loop test

\* state of the telemetry loop and of its collaborators
tel == <<MISSION_COMPLETED, utpc, sample, msg, ackId, nextId, sent, attempts,
         drops, sendOk, cspc, csNew>>

\* state of a set_attitude call
att == <<attPc, attArgs, attMsgs, attClock>>

vars == <<status, mode, pc, cmd, trace, req, polls, reading, result, rxReady,
          slept, csArg, csRaised, here, tel, att>>

ctx == <<pc, cmd, trace, req, polls, reading, result, rxReady, slept, here>>

-----------------------------------------------------------------------------
(* Bounds of the model *)

\* readings of one poll loop the model counts; the loop itself goes on
MaxPolls == 3

\* the count of readings after one more, held at MaxPolls
Counted(n) == IF n < MaxPolls THEN n + 1 ELSE n

\* callback contexts the radio layer may run coms_callback on
Threads == {"cb1", "cb2"}

\* altitude and distance readings the autopilot may report
AltReadings == {-1, 0, 1, 18, 19}
DistReadings == {1, 2, 3, 10, 50}

\* positions and altitudes a command body or the vehicle location may hold
Lats == {1, 2}
Lons == {3}
Alts == {4, 5}

\* bodies of the go_to commands the radio layer may deliver
GoToBodies == {[Lat |-> 1, Lon |-> 3, Alt |-> 4], [Lat |-> 2, Lon |-> 3, Alt |-> 5]}

-----------------------------------------------------------------------------
(* Configuration read by the maneuvers (self.configs) *)

altitude == 20
air_speed == 15
waypoint_tolerance == 2

\* VTOL.land_mode
land_mode == "LAND"

\* the settle delay of land, in seconds
SettleDelay == 5

-----------------------------------------------------------------------------
(* change_status *)

StatusValues == {"ready", "running", "waiting", "paused", "error"}

\* values a caller may pass to change_status
StatusInputs == StatusValues \cup {"flying"}

ValidStatus_Any(new_status) == TRUE

ValidStatus(new_status) ==
    new_status \in {"ready", "running", "waiting", "paused", "error"}

change_status(new_status) ==
    /\ csArg' = new_status
    /\ IF ~ValidStatus(new_status)
       THEN /\ csRaised' = TRUE
            /\ UNCHANGED status
       ELSE /\ csRaised' = FALSE
            /\ status' = new_status
    /\ UNCHANGED <<mode, ctx>>

\* change_status called while the telemetry loop and set_attitude stand still
call_change_status(new_status) ==
    change_status(new_status) /\ UNCHANGED <<tel, att>>

-----------------------------------------------------------------------------
(* Commands *)

NoBody == [k \in {} |-> 0]

Commands ==
    {[Type |-> "takeoff", Body |-> NoBody], [Type |-> "land", Body |-> NoBody],
     [Type |-> "hover", Body |-> NoBody]}
    \cup {[Type |-> "go_to", Body |-> b] : b \in GoToBodies}
    \cup {[Type |-> "set_altitude", Body |-> b] : b \in [Alt : Alts]}

NoCommand == [Type |-> "none", Body |-> NoBody]

ValidCommand_Any(type) == TRUE

ValidCommand(type) == type \in {"takeoff", "land", "go_to", "set_altitude"}

LocationGlobalRelative(lat, lon, alt) == [Lat |-> lat, Lon |-> lon, Alt |-> alt]

\* the context's locals at the start of a coms_callback call
Enter(t, c) ==
    /\ cmd' = [cmd EXCEPT ![t] = c]
    /\ rxReady' = [rxReady EXCEPT ![t] = (c.Type = "takeoff" => status = "ready")]
    /\ polls' = [polls EXCEPT ![t] = 0]
    /\ reading' = [reading EXCEPT ![t] = 0]
    /\ slept' = [slept EXCEPT ![t] = 0]
    /\ UNCHANGED <<csArg, csRaised, tel, att>>

-----------------------------------------------------------------------------
(* takeoff *)

AltitudeReached_Never(alt) == FALSE

AltitudeReached_Low(alt) == ~(alt * 100 < altitude * 90)

\* the exit test of "while alt < altitude * 0.95"
AltitudeReached(alt) == ~(alt * 100 < altitude * 95)

\* coms_callback dispatches takeoff: takeoff runs up to its first poll
takeoff_enter(t) ==
    /\ pc' = [pc EXCEPT ![t] = "takeoff_armable"]
    /\ trace' = [trace EXCEPT ![t] = <<>>]
    /\ req' = [req EXCEPT ![t] = NoBody]
    /\ result' = [result EXCEPT ![t] = "running"]
    /\ here' = [here EXCEPT ![t] = NoBody]
    /\ UNCHANGED <<status, mode>>

takeoff_armable_Eager(t, is_armable) ==
    /\ pc[t] = "takeoff_armable"
    /\ mode' = "GUIDED"
    /\ trace' = [trace EXCEPT ![t] = IF is_armable
                                        THEN <<"is_armable", "mode_GUIDED", "arm">>
                                        ELSE <<"mode_GUIDED", "arm">>]
    /\ pc' = [pc EXCEPT ![t] = "takeoff_armed"]
    /\ polls' = [polls EXCEPT ![t] = 0]
    /\ UNCHANGED <<status, cmd, req, reading, result, rxReady, slept, csArg, csRaised, here, tel, att>>

\* one poll of "while not self.is_armable", then mode GUIDED and the arm command
takeoff_armable(t, is_armable) ==
    /\ pc[t] = "takeoff_armable"
    /\ IF ~is_armable
       THEN /\ polls' = [polls EXCEPT ![t] = Counted(@)]
            /\ UNCHANGED <<mode, trace, pc>>
       ELSE /\ mode' = "GUIDED"
            /\ trace' = [trace EXCEPT ![t] = <<"is_armable", "mode_GUIDED", "arm">>]
            /\ pc' = [pc EXCEPT ![t] = "takeoff_armed"]
            /\ polls' = [polls EXCEPT ![t] = 0]
    /\ UNCHANGED <<status, cmd, req, reading, result, rxReady, slept, csArg, csRaised, here, tel, att>>

\* one poll of "while not self.armed", then simple_takeoff(altitude)
takeoff_armed(t, armed) ==
    /\ pc[t] = "takeoff_armed"
    /\ IF ~armed
       THEN /\ polls' = [polls EXCEPT ![t] = Counted(@)]
            /\ UNCHANGED <<trace, req, pc>>
       ELSE /\ trace' = [trace EXCEPT ![t] = @ \o <<"armed", "simple_takeoff">>]
            /\ req' = [req EXCEPT ![t] = [Alt |-> altitude]]
            /\ pc' = [pc EXCEPT ![t] = "takeoff_altitude"]
            /\ polls' = [polls EXCEPT ![t] = 0]
    /\ UNCHANGED <<status, mode, cmd, reading, result, rxReady, slept, csArg, csRaised, here, tel, att>>

takeoff_altitude_SetsRunning(t, alt) ==
    /\ pc[t] = "takeoff_altitude"
    /\ polls' = [polls EXCEPT ![t] = Counted(@)]
    /\ reading' = [reading EXCEPT ![t] = alt]
    /\ IF ~AltitudeReached(alt)
       THEN UNCHANGED <<trace, pc, result, status>>
       ELSE /\ trace' = [trace EXCEPT ![t] = @ \o <<"altitude">>]
            /\ pc' = [pc EXCEPT ![t] = "idle"]
            /\ result' = [result EXCEPT ![t] = "returned"]
            /\ status' = "running"
    /\ UNCHANGED <<mode, cmd, req, rxReady, slept, csArg, csRaised, here, tel, att>>

\* one poll of "while alt < altitude * 0.95"; takeoff and coms_callback return
takeoff_altitude(t, alt) ==
    /\ pc[t] = "takeoff_altitude"
    /\ polls' = [polls EXCEPT ![t] = Counted(@)]
    /\ reading' = [reading EXCEPT ![t] = alt]
    /\ IF ~AltitudeReached(alt)
       THEN UNCHANGED <<trace, pc, result>>
       ELSE /\ trace' = [trace EXCEPT ![t] = @ \o <<"altitude">>]
            /\ pc' = [pc EXCEPT ![t] = "idle"]
            /\ result' = [result EXCEPT ![t] = "returned"]
    /\ UNCHANGED <<status, mode, cmd, req, rxReady, slept, csArg, csRaised, here, tel, att>>

-----------------------------------------------------------------------------
(* go_to and set_altitude *)

WithinTolerance_Strict(distance) == ~(distance >= waypoint_tolerance)

\* the exit test of the go_to loop: "if distance > tolerance ... else break"
WithinTolerance(distance) == ~(distance > waypoint_tolerance)

\* coms_callback dispatches go_to(point): simple_goto(point, air_speed)
go_to_enter(t, point) ==
    /\ pc' = [pc EXCEPT ![t] = "go_to_distance"]
    /\ trace' = [trace EXCEPT ![t] = <<"simple_goto">>]
    /\ req' = [req EXCEPT ![t] = [Lat |-> point.Lat, Lon |-> point.Lon,
                                  Alt |-> point.Alt, Speed |-> air_speed]]
    /\ result' = [result EXCEPT ![t] = "running"]
    /\ UNCHANGED <<status, mode>>

set_altitude_enter_TargetAltitude(t, alt) ==
    \E lat \in Lats, lon \in Lons :
        /\ here' = [here EXCEPT ![t] = [Lat |-> lat, Lon |-> lon]]
        /\ go_to_enter(t, LocationGlobalRelative(lat, lon, altitude))

\* coms_callback dispatches set_altitude(alt): go_to to the current position
\* (lat, lon are read from the vehicle location) at altitude alt
set_altitude_enter(t, alt) ==
    \E lat \in Lats, lon \in Lons :
        /\ here' = [here EXCEPT ![t] = [Lat |-> lat, Lon |-> lon]]
        /\ go_to_enter(t, LocationGlobalRelative(lat, lon, alt))

\* one pass of the go_to loop; on break go_to (and set_altitude) and
\* coms_callback return
go_to_distance(t, distance) ==
    /\ pc[t] = "go_to_distance"
    /\ polls' = [polls EXCEPT ![t] = Counted(@)]
    /\ reading' = [reading EXCEPT ![t] = distance]
    /\ IF ~WithinTolerance(distance)
       THEN UNCHANGED <<pc, result>>
       ELSE /\ pc' = [pc EXCEPT ![t] = "idle"]
            /\ result' = [result EXCEPT ![t] = "returned"]
    /\ UNCHANGED <<status, mode, cmd, trace, req, rxReady, slept, csArg, csRaised, here, tel, att>>

-----------------------------------------------------------------------------
(* land *)

Landed_Early(alt) == ~(alt > 1)

\* the exit test of "while alt > 0"
Landed(alt) == ~(alt > 0)

\* coms_callback dispatches land: the mode is set to land_mode
land_enter(t) ==
    /\ pc' = [pc EXCEPT ![t] = "land_altitude"]
    /\ mode' = land_mode
    /\ trace' = [trace EXCEPT ![t] = <<"mode_LAND">>]
    /\ req' = [req EXCEPT ![t] = NoBody]
    /\ result' = [result EXCEPT ![t] = "running"]
    /\ here' = [here EXCEPT ![t] = NoBody]
    /\ UNCHANGED status

\* one poll of "while alt > 0"
land_altitude(t, alt) ==
    /\ pc[t] = "land_altitude"
    /\ polls' = [polls EXCEPT ![t] = Counted(@)]
    /\ reading' = [reading EXCEPT ![t] = alt]
    /\ IF ~Landed(alt)
       THEN UNCHANGED <<pc, trace>>
       ELSE /\ pc' = [pc EXCEPT ![t] = "land_settle"]
            /\ trace' = [trace EXCEPT ![t] = @ \o <<"landed">>]
    /\ UNCHANGED <<status, mode, cmd, req, result, rxReady, slept, csArg, csRaised, here, tel, att>>

\* time.sleep(5); land and coms_callback return
land_settle(t) ==
    /\ pc[t] = "land_settle"
    /\ slept' = [slept EXCEPT ![t] = SettleDelay]
    /\ trace' = [trace EXCEPT ![t] = @ \o <<"sleep">>]
    /\ pc' = [pc EXCEPT ![t] = "idle"]
    /\ result' = [result EXCEPT ![t] = "returned"]
    /\ UNCHANGED <<status, mode, cmd, req, polls, reading, rxReady, csArg, csRaised, here, tel, att>>

-----------------------------------------------------------------------------
(* coms_callback *)

coms_callback_Swapped(t, c) ==
    /\ pc[t] = "idle"
    /\ Enter(t, c)
    /\ IF ~ValidCommand(c.Type)
       THEN /\ result' = [result EXCEPT ![t] = "raised"]
            /\ trace' = [trace EXCEPT ![t] = <<>>]
            /\ req' = [req EXCEPT ![t] = NoBody]
            /\ here' = [here EXCEPT ![t] = NoBody]
            /\ UNCHANGED <<pc, status, mode>>
       ELSE IF c.Type = "takeoff" THEN land_enter(t)
       ELSE IF c.Type = "land" THEN takeoff_enter(t)
       ELSE IF c.Type = "go_to"
            THEN /\ here' = [here EXCEPT ![t] = NoBody]
                 /\ go_to_enter(t, LocationGlobalRelative(c.Body.Lat, c.Body.Lon,
                                                          c.Body.Alt))
       ELSE IF c.Type = "set_altitude" THEN set_altitude_enter(t, c.Body.Alt)
       ELSE /\ result' = [result EXCEPT ![t] = "returned"]
            /\ trace' = [trace EXCEPT ![t] = <<>>]
            /\ req' = [req EXCEPT ![t] = NoBody]
            /\ here' = [here EXCEPT ![t] = NoBody]
            /\ UNCHANGED <<pc, status, mode>>

\* the callback is entered with command c on a context that is not inside it:
\* an unsupported type raises, a supported one runs its maneuver up to the
\* maneuver's first poll
coms_callback(t, c) ==
    /\ pc[t] = "idle"
    /\ Enter(t, c)
    /\ IF ~ValidCommand(c.Type)
       THEN /\ result' = [result EXCEPT ![t] = "raised"]
            /\ trace' = [trace EXCEPT ![t] = <<>>]
            /\ req' = [req EXCEPT ![t] = NoBody]
            /\ here' = [here EXCEPT ![t] = NoBody]
            /\ UNCHANGED <<pc, status, mode>>
       ELSE IF c.Type = "takeoff" THEN takeoff_enter(t)
       ELSE IF c.Type = "land" THEN land_enter(t)
       ELSE IF c.Type = "go_to"
            THEN /\ here' = [here EXCEPT ![t] = NoBody]
                 /\ go_to_enter(t, LocationGlobalRelative(c.Body.Lat, c.Body.Lon,
                                                          c.Body.Alt))
       ELSE IF c.Type = "set_altitude" THEN set_altitude_enter(t, c.Body.Alt)
       ELSE /\ result' = [result EXCEPT ![t] = "returned"]
            /\ trace' = [trace EXCEPT ![t] = <<>>]
            /\ req' = [req EXCEPT ![t] = NoBody]
            /\ here' = [here EXCEPT ![t] = NoBody]
            /\ UNCHANGED <<pc, status, mode>>

-----------------------------------------------------------------------------
(* update_thread: the telemetry loop *)

\* most message ids the model follows new_msg_id to
MaxId == 3

\* most acks the model lets the radio channel drop for one message
MaxDrops == 3

\* battery levels the autopilot may report: none, or a percentage
BatteryLevels == {<<>>, <<0>>, <<40>>, <<100>>}

NoSample == [level |-> <<>>, lat |-> 0, lon |-> 0]

NoMessage == [id |-> 0, lat |-> 0, lon |-> 0, status |-> "",
              battery |-> [num |-> 0, den |-> 1]]

BatteryFraction_NoScale(level) ==
    IF level # <<>> /\ level[1] # 0
    THEN [num |-> level[1], den |-> 1]
    ELSE [num |-> 0, den |-> 1]

\* "self.battery.level / 100.0 if self.battery.level else 0.0", as a fraction
BatteryFraction(level) ==
    IF level # <<>> /\ level[1] # 0
    THEN [num |-> level[1], den |-> 100]
    ELSE [num |-> 0, den |-> 1]

\* Coms.new_msg_id: the next value of a counter that only grows
new_msg_id(last) == last + 1

\* "while not self.MISSION_COMPLETED": the loop test
update_head ==
    /\ utpc = "head"
    /\ utpc' = IF ~MISSION_COMPLETED THEN "build" ELSE "exit"
    /\ UNCHANGED <<status, mode, ctx, csArg, csRaised, att, MISSION_COMPLETED,
                   sample, msg, ackId, nextId, sent, attempts, drops, sendOk,
                   cspc, csNew>>

update_build_ReusesId(lat, lon, level, n) ==
    /\ utpc = "build"
    /\ nextId < MaxId
    /\ sample' = [level |-> level, lat |-> lat, lon |-> lon]
    /\ UNCHANGED nextId
    /\ msg' = [id |-> msg.id, lat |-> lat, lon |-> lon, status |-> status,
               battery |-> BatteryFraction(level)]
    /\ ackId' = msg'.id
    /\ sent' = Append(sent, ackId')
    /\ attempts' = 0
    /\ drops' = n
    /\ utpc' = "send"
    /\ UNCHANGED <<status, mode, ctx, csArg, csRaised, att, MISSION_COMPLETED,
                   sendOk, cspc, csNew>>

\* the loop body up to the call of send_till_ack: location and battery are
\* read, an id is taken from new_msg_id, status is read, and the message is
\* handed to send_till_ack with update_message['id']; the channel will drop
\* the first n acks
update_build(lat, lon, level, n) ==
    /\ utpc = "build"
    /\ nextId < MaxId
    /\ sample' = [level |-> level, lat |-> lat, lon |-> lon]
    /\ nextId' = new_msg_id(nextId)
    /\ msg' = [id |-> nextId', lat |-> lat, lon |-> lon, status |-> status,
               battery |-> BatteryFraction(level)]
    /\ ackId' = msg'.id
    /\ sent' = Append(sent, ackId')
    /\ attempts' = 0
    /\ drops' = n
    /\ utpc' = "send"
    /\ UNCHANGED <<status, mode, ctx, csArg, csRaised, att, MISSION_COMPLETED,
                   sendOk, cspc, csNew>>

\* the attempts send_till_ack makes before it gives up
RetryBudget == 3

AckObserved_Late(attempt, n) == attempt > n + 1

\* the channel drops the first n acks: the ack of attempt number n + 1 arrives
AckObserved(attempt, n) == attempt > n

\* Coms.send_till_ack: one transmission and the wait for its ack; the call
\* returns True on the ack and False when the budget is used up, and
\* update_thread goes on to time.sleep(1) whatever it returned
update_send ==
    /\ utpc = "send"
    /\ attempts' = attempts + 1
    /\ IF AckObserved(attempts', drops)
       THEN sendOk' = TRUE /\ utpc' = "sleep"
       ELSE IF attempts' >= RetryBudget
       THEN sendOk' = FALSE /\ utpc' = "sleep"
       ELSE UNCHANGED <<sendOk, utpc>>
    /\ UNCHANGED <<status, mode, ctx, csArg, csRaised, att, MISSION_COMPLETED,
                   sample, msg, ackId, nextId, sent, drops, cspc, csNew>>

\* the value send_till_ack returned is dropped; time.sleep(1), and back to
\* the loop test
update_sleep ==
    /\ utpc = "sleep"
    /\ utpc' = "head"
    /\ attempts' = 0
    /\ drops' = 0
    /\ sendOk' = FALSE
    /\ UNCHANGED <<status, mode, ctx, csArg, csRaised, att, MISSION_COMPLETED,
                   sample, msg, ackId, nextId, sent, cspc, csNew>>

update_exit_Silent ==
    /\ utpc = "exit"
    /\ utpc' = "done"
    /\ UNCHANGED <<status, mode, ctx, csArg, csRaised, att, MISSION_COMPLETED,
                   sample, msg, ackId, nextId, sent, attempts, drops, sendOk,
                   cspc, csNew>>

\* after the loop: self.change_status("ready"), and update_thread returns
update_exit ==
    /\ utpc = "exit"
    /\ change_status("ready")
    /\ utpc' = "done"
    /\ UNCHANGED <<att, MISSION_COMPLETED, sample, msg, ackId, nextId, sent,
                   attempts, drops, sendOk, cspc, csNew>>

\* the mission ends: the flag is set by the program that started the loop
complete_mission ==
    /\ ~MISSION_COMPLETED
    /\ MISSION_COMPLETED' = TRUE
    /\ UNCHANGED <<status, mode, ctx, csArg, csRaised, att, utpc, sample, msg,
                   ackId, nextId, sent, attempts, drops, sendOk, cspc, csNew>>

\* another sender of the session (a command acknowledgment) takes an id
other_new_msg_id ==
    /\ nextId < MaxId
    /\ nextId' = new_msg_id(nextId)
    /\ UNCHANGED <<status, mode, ctx, csArg, csRaised, att, MISSION_COMPLETED,
                   utpc, sample, msg, ackId, sent, attempts, drops, sendOk,
                   cspc, csNew>>

\* change_status run by a second flow, statement by statement: the membership
\* test, which raises or passes ...
change_status_test(new_status) ==
    /\ cspc = "idle"
    /\ IF ~ValidStatus(new_status)
       THEN UNCHANGED <<cspc, csNew>>
       ELSE cspc' = "assign" /\ csNew' = new_status
    /\ UNCHANGED <<status, mode, ctx, csArg, csRaised, att, MISSION_COMPLETED,
                   utpc, sample, msg, ackId, nextId, sent, attempts, drops, sendOk>>

\* ... and the assignment self.status = new_status
change_status_assign ==
    /\ cspc = "assign"
    /\ status' = csNew
    /\ cspc' = "idle"
    /\ csNew' = "ready"
    /\ UNCHANGED <<mode, ctx, csArg, csRaised, att, MISSION_COMPLETED, utpc,
                   sample, msg, ackId, nextId, sent, attempts, drops, sendOk>>

-----------------------------------------------------------------------------
(* set_attitude *)

\* most 0.1 s ticks of time.time() the model follows after set_attitude starts
MaxTicks == 3

\* arguments of set_attitude: angles and yaw rate in degrees, thrust in tenths
\* of full thrust, duration in ticks of 0.1 s; yaw_angle <<>> stands for None
Rolls == {0, 5}
YawAngles == {<<>>, <<0>>, <<90>>}
YawRates == {0, 10}
Thrusts == {5, 6}
Durations == {0, 1, 2}

\* self.attitude.yaw, read when yaw_angle is None
Yaws == {0, 45}

AttitudeArgs ==
    [roll : Rolls, pitch : {0}, yaw_angle : YawAngles, yaw_rate : YawRates,
     use_yaw_rate : BOOLEAN, thrust : Thrusts, duration : Durations]

\* the defaults of set_attitude's parameters
NoArgs == [roll |-> 0, pitch |-> 0, yaw_angle |-> <<>>, yaw_rate |-> 0,
           use_yaw_rate |-> FALSE, thrust |-> 5, duration |-> 0]

\* send_attitude_target: the SET_ATTITUDE_TARGET message it encodes and sends,
\* by its type mask, the three angles given to to_quaternion, the yaw rate
\* given to radians, and the thrust; yaw is the vehicle's current yaw when
\* yaw_angle is None
send_attitude_target(roll_angle, pitch_angle, yaw_angle, yaw_rate, use_yaw_rate, thrust, yaw) ==
    [mask |-> IF use_yaw_rate THEN 0 ELSE 4,
     roll |-> roll_angle,
     pitch |-> pitch_angle,
     yaw |-> IF yaw_angle = <<>> THEN yaw ELSE yaw_angle[1],
     yaw_rate |-> yaw_rate,
     thrust |-> thrust]

\* set_attitude is called: the first send_attitude_target of the requested
\* target, and start = time.time()
set_attitude_call(a, yaw) ==
    /\ attPc \in {"idle", "done"}
    /\ attArgs' = a
    /\ attMsgs' = <<send_attitude_target(a.roll, a.pitch, a.yaw_angle, a.yaw_rate,
                                         a.use_yaw_rate, a.thrust, yaw)>>
    /\ attClock' = 0
    /\ attPc' = "test"
    /\ UNCHANGED <<status, mode, ctx, csArg, csRaised, tel>>

\* "while time.time() - start < duration": the clock is read, now ticks after
\* start and not before the last reading
set_attitude_test(now) ==
    /\ attPc = "test"
    /\ now >= attClock
    /\ attClock' = now
    /\ attPc' = IF now < attArgs.duration THEN "send" ELSE "reset"
    /\ UNCHANGED <<status, mode, ctx, csArg, csRaised, tel, attArgs, attMsgs>>

\* the loop body: the requested target again, then time.sleep(0.1), which
\* lasts at least one tick
set_attitude_send(yaw, now) ==
    /\ attPc = "send"
    /\ now > attClock
    /\ attMsgs' = Append(attMsgs,
                         send_attitude_target(attArgs.roll, attArgs.pitch,
                                              attArgs.yaw_angle, attArgs.yaw_rate,
                                              attArgs.use_yaw_rate, attArgs.thrust, yaw))
    /\ attClock' = now
    /\ attPc' = "test"
    /\ UNCHANGED <<status, mode, ctx, csArg, csRaised, tel, attArgs>>

set_attitude_reset_DefaultThrust(yaw) ==
    /\ attPc = "reset"
    /\ attMsgs' = Append(attMsgs, send_attitude_target(0, 0, <<0>>, 0, TRUE, 5, yaw))
    /\ attPc' = "done"
    /\ UNCHANGED <<status, mode, ctx, csArg, csRaised, tel, attArgs, attClock>>

\* after the loop: send_attitude_target(0, 0, 0, 0, True, thrust), and
\* set_attitude returns
set_attitude_reset(yaw) ==
    /\ attPc = "reset"
    /\ attMsgs' = Append(attMsgs,
                         send_attitude_target(0, 0, <<0>>, 0, TRUE, attArgs.thrust, yaw))
    /\ attPc' = "done"
    /\ UNCHANGED <<status, mode, ctx, csArg, csRaised, tel, attArgs, attClock>>

-----------------------------------------------------------------------------
(* The program *)

\* status is the class attribute's value; the autopilot is in a mode no
\* maneuver has asked for yet, and no callback has run
Init ==
    /\ status = "ready"
    /\ mode = "STABILIZE"
    /\ pc = [t \in Threads |-> "idle"]
    /\ cmd = [t \in Threads |-> NoCommand]
    /\ trace = [t \in Threads |-> <<>>]
    /\ req = [t \in Threads |-> NoBody]
    /\ polls = [t \in Threads |-> 0]
    /\ reading = [t \in Threads |-> 0]
    /\ result = [t \in Threads |-> "none"]
    /\ rxReady = [t \in Threads |-> TRUE]
    /\ slept = [t \in Threads |-> 0]
    /\ csArg = "ready"
    /\ csRaised = FALSE
    /\ here = [t \in Threads |-> NoBody]
    /\ MISSION_COMPLETED = FALSE
    /\ utpc = "head"
    /\ sample = NoSample
    /\ msg = NoMessage
    /\ ackId = 0
    /\ nextId = 0
    /\ sent = <<>>
    /\ attempts = 0
    /\ drops = 0
    /\ sendOk = FALSE
    /\ cspc = "idle"
    /\ csNew = "ready"
    /\ attPc = "idle"
    /\ attArgs = NoArgs
    /\ attMsgs = <<>>
    /\ attClock = 0

\* the steps of the callback running on context t
Step(t) ==
    \/ \E c \in Commands : coms_callback(t, c)
    \/ \E b \in BOOLEAN : takeoff_armable(t, b)
    \/ \E b \in BOOLEAN : takeoff_armed(t, b)
    \/ \E a \in AltReadings : takeoff_altitude(t, a)
    \/ \E d \in DistReadings : go_to_distance(t, d)
    \/ \E a \in AltReadings : land_altitude(t, a)
    \/ land_settle(t)

\* the radio layer runs callbacks on any context
Next ==
    \/ \E s \in StatusInputs : call_change_status(s)
    \/ \E t \in Threads : Step(t)

Spec == Init /\ [][Next]_vars

\* the radio layer runs one callback at a time, on one context
SerialNext ==
    \/ \E s \in StatusInputs : call_change_status(s)
    \/ Step("cb1")

SerialSpec == Init /\ [][SerialNext]_vars

\* context t is inside a coms_callback call
InFlight(t) == pc[t] # "idle"

\* a maneuver that has started keeps being scheduled: its next statement is
\* executed
Running(t) == InFlight(t) /\ Step(t)

\* one callback at a time, and the thread it runs on is not starved
TakeoffSpec == Init /\ [][SerialNext]_vars /\ WF_vars(Running("cb1"))

\* set_attitude called again and again by one flow
AttitudeNext ==
    \/ \E a \in AttitudeArgs, yaw \in Yaws : set_attitude_call(a, yaw)
    \/ \E now \in 0..MaxTicks : set_attitude_test(now)
    \/ \E yaw \in Yaws, now \in 0..MaxTicks : set_attitude_send(yaw, now)
    \/ \E yaw \in Yaws : set_attitude_reset(yaw)

AttitudeSpec == Init /\ [][AttitudeNext]_vars

\* the telemetry loop runs beside a flow that calls change_status
TelemetryNext ==
    \/ update_head
    \/ \E lat \in Lats, lon \in Lons, level \in BatteryLevels, n \in 0..MaxDrops :
           update_build(lat, lon, level, n)
    \/ update_send
    \/ update_sleep
    \/ update_exit
    \/ complete_mission
    \/ other_new_msg_id
    \/ \E s \in StatusInputs : change_status_test(s)
    \/ change_status_assign

TelemetrySpec == Init /\ [][TelemetryNext]_vars

-----------------------------------------------------------------------------
(* Helpers of the properties *)

Range(s) == {s[i] : i \in 1..Len(s)}

IsPrefix(s, r) == Len(s) <= Len(r) /\ s = SubSeq(r, 1, Len(s))

\* this step enters coms_callback on context t with a supported command
Received(t) == pc[t] = "idle" /\ result'[t] = "running"

TakeoffOrder ==
    <<"is_armable", "mode_GUIDED", "arm", "armed", "simple_takeoff", "altitude">>

LandOrder == <<"mode_LAND", "landed", "sleep">>

-----------------------------------------------------------------------------
(* C1 *)

\* C1: change_status(new_status) with a value outside {ready, running,
\* waiting, paused, error} raises and leaves status as it was; with a value
\* inside that set status becomes exactly that value.
C1_ChangeStatusContract ==
    [][(csArg' # csArg \/ csRaised' # csRaised \/ status' # status) =>
          IF csArg' \in {"ready", "running", "waiting", "paused", "error"}
          THEN status' = csArg' /\ ~csRaised'
          ELSE status' = status /\ csRaised']_vars

\* a rejected change_status call made after the status had left its initial value
C1_Witness == csRaised /\ csArg = "flying" /\ status = "running"

-----------------------------------------------------------------------------
(* C2 *)

\* C2: in every execution of takeoff the gates and requests come in the order
\* armable poll, mode GUIDED and arm, armed poll, simple_takeoff(altitude),
\* altitude poll; takeoff returns only on an altitude reading of at least 95%
\* of the configured altitude.
C2_TakeoffSequencing ==
    \A t \in Threads :
        cmd[t].Type = "takeoff" =>
            /\ IsPrefix(trace[t], TakeoffOrder)
            /\ (pc[t] = "takeoff_armable" => trace[t] = <<>>)
            /\ (pc[t] = "takeoff_armed" => trace[t] = SubSeq(TakeoffOrder, 1, 3))
            /\ (pc[t] = "takeoff_altitude" =>
                    /\ trace[t] = SubSeq(TakeoffOrder, 1, 5)
                    /\ req[t] = [Alt |-> altitude]
                    /\ (polls[t] > 0 => reading[t] * 100 < altitude * 95))
            /\ (result[t] = "returned" =>
                    /\ trace[t] = TakeoffOrder
                    /\ req[t] = [Alt |-> altitude]
                    /\ polls[t] > 0
                    /\ reading[t] * 100 >= altitude * 95)

\* a takeoff that returned on its third altitude reading
C2_Witness ==
    \E t \in Threads :
        /\ cmd[t].Type = "takeoff"
        /\ result[t] = "returned"
        /\ polls[t] = 3
        /\ reading[t] = 19

-----------------------------------------------------------------------------
(* C3 *)

\* C3: a command received while another command's maneuver is in flight is
\* queued or rejected as busy; its maneuver is not started alongside the
\* maneuver in flight.
C3_QueuedOrRejected ==
    [][\A t \in Threads :
          (Received(t) /\ \E u \in Threads \ {t} : InFlight(u)) =>
              (~InFlight(t)' /\ result'[t] \in {"queued", "busy"})]_vars

-----------------------------------------------------------------------------
(* C4 *)

\* C4: at most one command's maneuver is being executed at any instant.
C4_AtMostOneManeuver == Cardinality({t \in Threads : InFlight(t)}) <= 1

-----------------------------------------------------------------------------
(* C5 *)

\* C5: once a land command has arrived, a takeoff or go_to in progress stops
\* polling: it takes no further reading and passes no further gate.
C5_LandPreempts ==
    [][\A t \in Threads :
          (/\ cmd[t].Type \in {"takeoff", "go_to"}
           /\ InFlight(t)
           /\ \E u \in Threads \ {t} : InFlight(u) /\ cmd[u].Type = "land") =>
              (polls'[t] = polls[t] /\ pc'[t] \in {pc[t], "idle"})]_vars

-----------------------------------------------------------------------------
(* C6 *)

\* C6: a takeoff command received while status is not ready does not arm the
\* vehicle or issue a climb.
C6_TakeoffOnlyFromReady ==
    \A t \in Threads :
        (cmd[t].Type = "takeoff" /\ ~rxReady[t]) =>
            ("arm" \notin Range(trace[t]) /\ "simple_takeoff" \notin Range(trace[t]))

-----------------------------------------------------------------------------
(* C7 *)

\* C7: a command of an unsupported type is rejected with an error: no maneuver
\* is started, no autopilot request is made, status and mode are unchanged, and
\* the context can take the next command.
C7_UnsupportedRejected ==
    /\ [](\A t \in Threads :
            (cmd[t] # NoCommand
             /\ cmd[t].Type \notin {"takeoff", "land", "go_to", "set_altitude"}) =>
                /\ result[t] = "raised"
                /\ ~InFlight(t)
                /\ trace[t] = <<>>
                /\ req[t] = NoBody
                /\ ENABLED coms_callback(t, [Type |-> "land", Body |-> NoBody]))
    /\ [][\A t \in Threads :
            (result'[t] = "raised" /\ <<cmd[t], result[t]>> # <<cmd'[t], result'[t]>>) =>
                (status' = status /\ mode' = mode)]_vars

\* an unsupported command rejected while the vehicle was already under way
C7_Witness ==
    \E t \in Threads :
        /\ cmd[t].Type = "hover"
        /\ result[t] = "raised"
        /\ mode = "GUIDED"
        /\ status = "running"

-----------------------------------------------------------------------------
(* C8 *)

\* C8: go_to makes exactly one navigation request, to the given point at the
\* configured air speed, and returns on the first distance reading that is at
\* most the waypoint tolerance: every reading it stays in the loop on exceeds
\* the tolerance.
C8_GoToTermination ==
    \A t \in Threads :
        cmd[t].Type = "go_to" =>
            /\ trace[t] = <<"simple_goto">>
            /\ req[t] = [Lat |-> cmd[t].Body.Lat, Lon |-> cmd[t].Body.Lon,
                         Alt |-> cmd[t].Body.Alt, Speed |-> air_speed]
            /\ (InFlight(t) => pc[t] = "go_to_distance")
            /\ ((InFlight(t) /\ polls[t] > 0) => reading[t] > waypoint_tolerance)
            /\ (~InFlight(t) =>
                    /\ result[t] = "returned"
                    /\ polls[t] > 0
                    /\ reading[t] <= waypoint_tolerance)

\* a go_to that returned on its third reading, 1 m against a tolerance of 2 m
C8_Witness ==
    \E t \in Threads :
        /\ cmd[t].Type = "go_to"
        /\ result[t] = "returned"
        /\ polls[t] = 3
        /\ reading[t] = 1

-----------------------------------------------------------------------------
(* C9 *)

\* C9: land switches the mode to the landing mode, polls altitude and leaves
\* the loop only on a reading <= 0, then sleeps the 5 second settle delay and
\* returns, whatever the first altitude reading is.
C9_LandSequencing ==
    \A t \in Threads :
        cmd[t].Type = "land" =>
            /\ IsPrefix(trace[t], LandOrder)
            /\ (InFlight(t) => mode = "LAND")
            /\ (pc[t] = "land_altitude" =>
                    /\ trace[t] = <<"mode_LAND">>
                    /\ slept[t] = 0
                    /\ (polls[t] > 0 => reading[t] > 0))
            /\ (pc[t] = "land_settle" =>
                    /\ trace[t] = <<"mode_LAND", "landed">>
                    /\ slept[t] = 0
                    /\ polls[t] > 0
                    /\ reading[t] <= 0)
            /\ (~InFlight(t) =>
                    /\ result[t] = "returned"
                    /\ trace[t] = LandOrder
                    /\ slept[t] = 5
                    /\ polls[t] > 0
                    /\ reading[t] <= 0)

\* a land that started at or below ground level: its first reading ended the loop
C9_Witness ==
    \E t \in Threads :
        /\ cmd[t].Type = "land"
        /\ result[t] = "returned"
        /\ polls[t] = 1
        /\ reading[t] = -1

-----------------------------------------------------------------------------
(* C10 *)

\* C10: no step of coms_callback or of a maneuver changes status; in
\* particular a takeoff that completes leaves status as it was.
C10_CommandsKeepStatus == [][ctx' # ctx => status' = status]_vars

\* a takeoff that completed with status still not running
C10_Witness ==
    \E t \in Threads :
        /\ cmd[t].Type = "takeoff"
        /\ result[t] = "returned"
        /\ status = "waiting"

-----------------------------------------------------------------------------
(* C11 *)

\* the telemetry loop's next statement reads status (the message is built) or
\* writes it (change_status("ready") after the loop)
UpdaterAtStatus == utpc \in {"build", "exit"}

\* the other flow's next statement writes status
CallerAtStatus == cspc = "assign"

\* C11: accesses to status by the two flows exclude each other: never is one
\* flow about to write status while the other is about to read or write it.
C11_StatusAccessExclusive == ~(UpdaterAtStatus /\ CallerAtStatus)

-----------------------------------------------------------------------------
(* C12 *)

\* C12 as stated: status is ready whenever update_thread has terminated.
C12_ReadyWheneverTerminated == utpc = "done" => status = "ready"

\* C12: update_thread goes round its loop while MISSION_COMPLETED is unset;
\* once the loop test sees the flag set it hands no further update to
\* send_till_ack, and the step in which it terminates is change_status("ready"):
\* status is ready at the moment update_thread terminates.
C12_FinalActSetsReady ==
    /\ [][(utpc = "head" /\ utpc' # "head") =>
             utpc' = (IF ~MISSION_COMPLETED THEN "build" ELSE "exit")]_vars
    /\ [][(utpc = "exit" \/ utpc = "done") =>
             (sent' = sent /\ msg' = msg /\ utpc' \in {"exit", "done"})]_vars
    /\ [][(utpc # "done" /\ utpc' = "done") =>
             (utpc = "exit" /\ status' = "ready")]_vars

\* update_thread has terminated after two updates, the last of which reported
\* status error, and status is ready again
C12_Witness ==
    /\ utpc = "done"
    /\ Len(sent) = 2
    /\ msg.status = "error"
    /\ status = "ready"

-----------------------------------------------------------------------------
(* C13 *)

\* C13: the ids of the updates handed to send_till_ack are strictly increasing
\* and never repeated, every one is an id new_msg_id has given out, and each
\* update is sent under the id stamped on it in the same cycle.
C13_UpdateIdsIncrease ==
    /\ \A i \in 1..Len(sent) : \A j \in 1..Len(sent) : i < j => sent[i] < sent[j]
    /\ \A i \in 1..Len(sent) : sent[i] >= 1 /\ sent[i] <= nextId
    /\ (utpc \in {"send", "sleep"} => ackId = msg.id)
    /\ (sent # <<>> => sent[Len(sent)] = msg.id /\ ackId = msg.id)

\* two updates were sent and another sender took the id between theirs
C13_Witness == sent = <<1, 3>> /\ utpc = "send"

-----------------------------------------------------------------------------
(* C14 *)

\* C14: the send of the telemetry loop succeeds if and only if an ack arrives
\* before the retry budget is used up: when the channel drops the first N acks
\* the call has succeeded after exactly N + 1 attempts if N is below the
\* budget, and has failed after exactly RetryBudget attempts otherwise; while
\* the call is still running every attempt so far went unacknowledged.
C14_SuccessIffAckInBudget ==
    /\ utpc = "sleep" =>
          /\ sendOk <=> drops < RetryBudget
          /\ sendOk => attempts = drops + 1
          /\ ~sendOk => attempts = RetryBudget /\ drops >= RetryBudget
    /\ utpc = "send" =>
          /\ attempts < RetryBudget
          /\ attempts <= drops
          /\ ~sendOk

\* two acks were dropped and the third attempt was acknowledged
C14_Witness == utpc = "sleep" /\ sendOk /\ drops = 2 /\ attempts = 3

-----------------------------------------------------------------------------
(* C15 *)

\* C15: set_altitude(alt) is one go_to: it makes exactly one navigation
\* request, whose latitude and longitude are the position read when
\* set_altitude was called and whose altitude is the requested alt, at the
\* configured air speed, and it returns exactly as go_to does, on the first
\* distance reading that is at most the waypoint tolerance.
C15_SetAltitudeIsGoTo ==
    \A t \in Threads :
        cmd[t].Type = "set_altitude" =>
            /\ here[t] # NoBody
            /\ trace[t] = <<"simple_goto">>
            /\ req[t] = [Lat |-> here[t].Lat, Lon |-> here[t].Lon,
                         Alt |-> cmd[t].Body.Alt, Speed |-> air_speed]
            /\ (InFlight(t) => pc[t] = "go_to_distance")
            /\ ((InFlight(t) /\ polls[t] > 0) => reading[t] > waypoint_tolerance)
            /\ (~InFlight(t) =>
                    /\ result[t] = "returned"
                    /\ polls[t] > 0
                    /\ reading[t] <= waypoint_tolerance)

\* a set_altitude to 5 m from position (2, 3) that returned on its second
\* reading, exactly the tolerance
C15_Witness ==
    \E t \in Threads :
        /\ cmd[t].Type = "set_altitude"
        /\ cmd[t].Body.Alt = 5
        /\ here[t] = [Lat |-> 2, Lon |-> 3]
        /\ result[t] = "returned"
        /\ polls[t] = 2
        /\ reading[t] = waypoint_tolerance

-----------------------------------------------------------------------------
(* C16 *)

\* C16: the battery value of every telemetry update built is a fraction
\* between 0 and 1, the level the autopilot reported (a percentage in 0..100)
\* divided by 100, and it is 0 when the autopilot reported no level.
C16_BatteryFraction ==
    sent # <<>> =>
        /\ msg.battery.den > 0
        /\ 0 <= msg.battery.num
        /\ msg.battery.num <= msg.battery.den
        /\ (sample.level = <<>> => msg.battery.num = 0)
        /\ (sample.level # <<>> =>
                msg.battery.num * 100 = sample.level[1] * msg.battery.den)

\* an update built from a level of 40 percent reports 40/100
C16_Witness ==
    /\ sent # <<>>
    /\ sample.level = <<40>>
    /\ msg.battery = [num |-> 40, den |-> 100]

-----------------------------------------------------------------------------
(* C17 *)

\* C17: the status starts as ready and in every reachable state, whatever
\* change_status calls (accepted or rejected) and telemetry cycles came
\* before, it is one of ready, running, waiting, paused, error.
C17_StatusAlwaysDefined ==
    /\ status = "ready"
    /\ [](status \in {"ready", "running", "waiting", "paused", "error"})

\* the telemetry loop has sent two updates and ended, and a later
\* change_status call has moved the status to waiting
C17_Witness == utpc = "done" /\ Len(sent) = 2 /\ status = "waiting" /\ cspc = "idle"

-----------------------------------------------------------------------------
(* C18 *)

\* C18: takeoff waits without a time limit and without acting early. While
\* it waits for the autopilot to become armable it has issued neither the
\* arm command nor the climb, another poll is always possible, and every
\* step other than a poll that reads armable leaves it waiting there. If
\* the autopilot eventually reports armable, then armed, then an altitude of
\* at least 95% of the target, a takeoff that has started returns.
C18_TakeoffWaits ==
    /\ [](pc["cb1"] = "takeoff_armable" =>
             /\ trace["cb1"] = <<>>
             /\ req["cb1"] = NoBody
             /\ ENABLED takeoff_armable("cb1", FALSE))
    /\ [][(pc["cb1"] = "takeoff_armable" /\ ~takeoff_armable("cb1", TRUE)) =>
             (pc'["cb1"] = "takeoff_armable" /\ trace'["cb1"] = <<>> /\ mode' = mode)]_vars
    /\ (/\ WF_vars(takeoff_armable("cb1", TRUE))
        /\ WF_vars(takeoff_armed("cb1", TRUE))
        /\ WF_vars(\E alt \in AltReadings :
                       AltitudeReached(alt) /\ takeoff_altitude("cb1", alt)))
       => ((cmd["cb1"].Type = "takeoff" /\ InFlight("cb1")) ~>
              (cmd["cb1"].Type = "takeoff" /\ result["cb1"] = "returned"))

\* a takeoff still waiting for armable after MaxPolls readings, nothing issued
C18_Witness ==
    /\ pc["cb1"] = "takeoff_armable"
    /\ polls["cb1"] = MaxPolls
    /\ trace["cb1"] = <<>>
    /\ mode # "GUIDED"

-----------------------------------------------------------------------------
(* C19 *)

\* C19: a command of a supported type starts its own maneuver, once, and no
\* other: takeoff runs takeoff(), land runs land(), go_to runs go_to on the
\* point made of Body Lat, Lon, Alt, and set_altitude runs set_altitude on
\* Body Alt (a go_to from the position read at the call).
C19_DispatchMapping ==
    \A t \in Threads :
        /\ cmd[t].Type = "takeoff" =>
              /\ pc[t] \in {"takeoff_armable", "takeoff_armed", "takeoff_altitude", "idle"}
              /\ IsPrefix(trace[t], TakeoffOrder)
              /\ req[t] \in {NoBody, [Alt |-> altitude]}
              /\ here[t] = NoBody
              /\ slept[t] = 0
        /\ cmd[t].Type = "land" =>
              /\ pc[t] \in {"land_altitude", "land_settle", "idle"}
              /\ trace[t] # <<>>
              /\ IsPrefix(trace[t], LandOrder)
              /\ req[t] = NoBody
              /\ here[t] = NoBody
        /\ cmd[t].Type = "go_to" =>
              /\ pc[t] \in {"go_to_distance", "idle"}
              /\ trace[t] = <<"simple_goto">>
              /\ req[t] = [Lat |-> cmd[t].Body.Lat, Lon |-> cmd[t].Body.Lon,
                           Alt |-> cmd[t].Body.Alt, Speed |-> air_speed]
              /\ here[t] = NoBody
              /\ slept[t] = 0
        /\ cmd[t].Type = "set_altitude" =>
              /\ pc[t] \in {"go_to_distance", "idle"}
              /\ trace[t] = <<"simple_goto">>
              /\ here[t] # NoBody
              /\ req[t] = [Lat |-> here[t].Lat, Lon |-> here[t].Lon,
                           Alt |-> cmd[t].Body.Alt, Speed |-> air_speed]
              /\ slept[t] = 0

\* a land command whose land() has run to its end
C19_Witness ==
    \E t \in Threads :
        /\ cmd[t].Type = "land"
        /\ result[t] = "returned"
        /\ trace[t] = LandOrder

-----------------------------------------------------------------------------
(* C20 *)

\* the message is the requested target of the call in progress: the caller's
\* roll, pitch, yaw rate and thrust, the type mask of use_yaw_rate, and the
\* caller's yaw angle when one was given
RequestedTarget(m) ==
    /\ m.roll = attArgs.roll
    /\ m.pitch = attArgs.pitch
    /\ m.yaw_rate = attArgs.yaw_rate
    /\ m.thrust = attArgs.thrust
    /\ m.mask = (IF attArgs.use_yaw_rate THEN 0 ELSE 4)
    /\ (attArgs.yaw_angle # <<>> => m.yaw = attArgs.yaw_angle[1])

\* the reset target: roll 0, pitch 0, yaw 0, yaw rate 0, use_yaw_rate true,
\* the caller's thrust
ResetTarget ==
    [mask |-> 0, roll |-> 0, pitch |-> 0, yaw |-> 0, yaw_rate |-> 0,
     thrust |-> attArgs.thrust]

\* C20: set_attitude sends the requested target at least once and ends with
\* the reset target: when it has returned, every message but the last is the
\* requested target, there is at least one of them, the last message is the
\* reset (roll 0, pitch 0, yaw 0, yaw rate 0, use_yaw_rate true, the caller's
\* thrust), and with duration 0 exactly two messages were sent; before it
\* returns only requested targets have been sent.
C20_EndsWithReset ==
    /\ attPc \in {"test", "send", "reset"} =>
          /\ Len(attMsgs) >= 1
          /\ \A i \in 1..Len(attMsgs) : RequestedTarget(attMsgs[i])
          /\ (attArgs.duration = 0 => Len(attMsgs) = 1 /\ attPc # "send")
    /\ attPc = "done" =>
          /\ Len(attMsgs) >= 2
          /\ \A i \in 1..(Len(attMsgs) - 1) : RequestedTarget(attMsgs[i])
          /\ attMsgs[Len(attMsgs)] = ResetTarget
          /\ (attArgs.duration = 0 => Len(attMsgs) = 2)

\* a call with duration 0, thrust 0.6 and no yaw angle that has returned
C20_Witness ==
    /\ attPc = "done"
    /\ attArgs.duration = 0
    /\ attArgs.thrust = 6
    /\ attArgs.yaw_angle = <<>>
    /\ Len(attMsgs) = 2
    /\ attMsgs[1].yaw = 45

====
